---- MODULE Spec2Model ----
(***************************************************************************)
(* Contest lifecycle tracking of the CodeForces cog (src/src/ext/          *)
(* codeforces.py): four periodic loops over three contest buckets and the  *)
(* campus leaderboards, with the HTTP responses each tick has in flight.   *)
(*                                                                         *)
(* Scheduling.  The loops are asyncio coroutines on one event loop.  A     *)
(* coroutine is suspended only at an await that really waits; here these   *)
(* are the HTTP fetches.  No `async with self._lock` block contains an     *)
(* await, so the lock is free at every suspension point and its            *)
(* acquisition never waits: the code between two fetches of a tick is one  *)
(* atomic step, in which the lock is taken and given back (SpecLock has    *)
(* the same code statement by statement, with the lock between the         *)
(* steps).  discord.ext.tasks runs the ticks of one loop one after         *)
(* the other, so each loop has at most one tick in flight.                 *)
(*                                                                         *)
(* Fetches.  The answer to contest.list is built by the server at some     *)
(* point while the tick waits and is kept in flight until the tick takes   *)
(* it, so it may be older than what another loop has fetched since.  The   *)
(* answers to the per-contest requests of a gather, and the rated users,   *)
(* show the remote API as it is when they arrive.                          *)
(***************************************************************************)
EXTENDS Integers, Sequences, FiniteSets, TLC

VARIABLES
    now,              \* wall clock, epoch seconds (datetime.now().timestamp())
    apiStart,         \* the remote API: start time it reports for each contest
    apiPhase,         \* the remote API: phase it reports for each contest
    ratings,          \* the remote API: contests whose rating changes are out
    ratedList,        \* the remote API: its answer to user.ratedList
    upcoming,         \* CodeForcesCog._upcoming_contests
    ongoing,          \* CodeForcesCog._ongoing_contests
    finishedPending,  \* CodeForcesCog._finished_pending_contests
    leaderboards,     \* CodeForcesCog._campus_leaderboards
    poller,           \* the tick of update_upcoming_contests in flight
    refresher,        \* the tick of refresh_ongoing_contests in flight
    watcher,          \* the tick of update_campus_leaderboards in flight
    mover,            \* the tick of check_ongoing_contests in flight
    reader,           \* the command in flight
    lock,             \* the task inside `async with self._lock`, or None
    last              \* history: the step taken last and what its tick wrote

vars == <<now, apiStart, apiPhase, ratings, ratedList, upcoming, ongoing, finishedPending,
          leaderboards, poller, refresher, watcher, mover, reader, lock, last>>

buckets == <<upcoming, ongoing, finishedPending, leaderboards>>

\* Python's None where a string may stand.
None == "None"

\* The outcome of a fetch: it raised (network error, malformed JSON, missing
\* key), or it returned a body.
Raise == [raised |-> TRUE, body |-> <<>>]
Return(body) == [raised |-> FALSE, body |-> body]

\* ---------------------------------------------------------------- time

Day == 86400
MaxAgeDays == 7
UserCutoffDays == 180
MaxAge == MaxAgeDays * Day             \* 7 * 24 * 3600
UserOnlineWindow == UserCutoffDays * Day  \* 180 * 24 * 3600

\* The clock value at start-up, in days since the epoch, and how many days
\* the clock may advance in a run.
StartDay == 200
MaxDays == 2
T0 == StartDay * Day

\* ------------------------------------------------------------ contests

BEFORE == "BEFORE"
CODING == "CODING"
PENDING_SYSTEM_TEST == "PENDING_SYSTEM_TEST"
SYSTEM_TEST == "SYSTEM_TEST"
FINISHED == "FINISHED"

ContestPhase == {BEFORE, CODING, PENDING_SYSTEM_TEST, SYSTEM_TEST, FINISHED}

PhaseRank(p) ==
    CASE p = BEFORE -> 0
      [] p = CODING -> 1
      [] p = PENDING_SYSTEM_TEST -> 2
      [] p = SYSTEM_TEST -> 3
      [] p = FINISHED -> 4

\* The contests the remote API knows, in the order of contest.list (newest
\* first).  Contest 1 starts one day after start-up and runs through
\* CODING and PENDING_SYSTEM_TEST; contest 2 started six days before
\* start-up and is in SYSTEM_TEST.  Within MaxDays the first goes from
\* future to started and the second from six to eight days old.
Contests == <<2, 1>>
ContestIds == {Contests[k] : k \in DOMAIN Contests}

StartOf(i) == IF i = 2 THEN T0 - 6 * Day ELSE T0 + Day

ApiPath(i) ==
    IF i = 2 THEN <<SYSTEM_TEST, FINISHED>>
    ELSE <<BEFORE, CODING, PENDING_SYSTEM_TEST, FINISHED>>

CFContest(i, p, st) == [id |-> i, phase |-> p, startTimeSeconds |-> st]

\* The None that _fetch_ranked_contest returns, among contests.
NoContest == [id |-> 0, phase |-> None, startTimeSeconds |-> 0]

\* discord.utils.get(seq, id=i) used as a truth value: some element has id i.
HasId(seq, i) == \E k \in DOMAIN seq : seq[k].id = i

IdsOf(seq) == {seq[k].id : k \in DOMAIN seq}

\* --------------------------------------------------------- leaderboards

\* CODEFORCES_ORGS: the campuses in configured order, each with the
\* organization names that select it.  "foo univ" is configured for both
\* campuses.
Campuses == <<"HYD", "GOA">>

OrgsOf(campus) ==
    IF campus = "HYD" THEN {"Foo Univ"} ELSE {"foo univ", "Bar Inst"}

\* str.casefold on the organization names that occur.
Casefold(s) ==
    CASE s = "Foo Univ" -> "foo univ"
      [] s = "FOO UNIV" -> "foo univ"
      [] s = "Bar Inst" -> "bar inst"
      [] s = "Other" -> "other"
      [] OTHER -> s

CFUser(h, r, seen, org) ==
    [handle |-> h, rating |-> r, lastOnlineTimeSeconds |-> seen,
     organization |-> org]

\* line 143: the user's organization matches one of the campus's names.
OrgMatches(user, campus) ==
    /\ user.organization # None
    /\ user.organization # ""
    /\ \E org \in OrgsOf(campus) : Casefold(org) = Casefold(user.organization)

\* lines 142-145: the first campus, in configured order, the user matches;
\* 0 when there is none.
RECURSIVE FirstCampus(_, _)

\* FirstCampus going on after a match, so that the last match wins.
RECURSIVE FirstCampusOverwritten(_, _)
FirstCampusOverwritten(user, k) ==
    IF k > Len(Campuses) THEN 0
    ELSE IF FirstCampusOverwritten(user, k + 1) # 0
         THEN FirstCampusOverwritten(user, k + 1)
         ELSE IF OrgMatches(user, Campuses[k]) THEN k ELSE 0

FirstCampus(user, k) ==
    IF k > Len(Campuses) THEN 0
    ELSE IF OrgMatches(user, Campuses[k]) THEN k
    ELSE FirstCampus(user, k + 1)

\* line 147: list.sort(key=rating, reverse=True), which keeps the order of
\* equal keys.
\* InsertByRating putting a user ahead of those with the same rating.
RECURSIVE InsertByRatingBeforeEqual(_, _)
InsertByRatingBeforeEqual(sorted, u) ==
    IF sorted = <<>> THEN <<u>>
    ELSE IF Head(sorted).rating > u.rating
         THEN <<Head(sorted)>> \o InsertByRatingBeforeEqual(Tail(sorted), u)
         ELSE <<u>> \o sorted

RECURSIVE InsertByRating(_, _)
InsertByRating(sorted, u) ==
    IF sorted = <<>> THEN <<u>>
    ELSE IF Head(sorted).rating >= u.rating
         THEN <<Head(sorted)>> \o InsertByRating(Tail(sorted), u)
         ELSE <<u>> \o sorted

RECURSIVE SortByRating(_)
SortByRating(users) ==
    IF users = <<>> THEN <<>>
    ELSE InsertByRating(SortByRating(SubSeq(users, 1, Len(users) - 1)),
                        users[Len(users)])

\* OnlineUsers without the cutoff.
OnlineUsersAll(users, t) == users

\* OnlineUsers dropping the users last seen at the cutoff too.
OnlineUsersStrict(users, t) ==
    SelectSeq(users, LAMBDA u : u.lastOnlineTimeSeconds > t - UserOnlineWindow)

\* lines 138-141: the users seen since the cutoff.
OnlineUsers(users, t) ==
    SelectSeq(users, LAMBDA u : ~(u.lastOnlineTimeSeconds < t - UserOnlineWindow))

\* CampusLeaderboards with the cutoff of the day the process started.
CampusLeaderboardsAtStart(users, t) ==
    LET kept == OnlineUsers(users, T0)
        of(c) == SelectSeq(kept, LAMBDA u :
                     FirstCampus(u, 1) # 0 /\ Campuses[FirstCampus(u, 1)] = c)
        keys == {Campuses[k] : k \in DOMAIN Campuses}
    IN  [c \in {d \in keys : of(d) # <<>>} |-> SortByRating(of(c))]

\* lines 136-147: the mapping built from the fetched users at clock value t;
\* a campus without users has no key (defaultdict).
CampusLeaderboards(users, t) ==
    LET kept == OnlineUsers(users, t)
        of(c) == SelectSeq(kept, LAMBDA u :
                     FirstCampus(u, 1) # 0 /\ Campuses[FirstCampus(u, 1)] = c)
        keys == {Campuses[k] : k \in DOMAIN Campuses}
    IN  [c \in {d \in keys : of(d) # <<>>} |-> SortByRating(of(c))]

EmptyBoards == [c \in {} |-> <<>>]

\* Rated users the server may report: equal ratings, an organization in
\* another case, one configured for both campuses, none at all, one no
\* campus has, and last visits around the cutoff.
RatedUsers ==
    << CFUser("ann", 1500, T0 - 10 * Day, "Foo Univ"),
       CFUser("bob", 1900, T0 - 179 * Day, "FOO UNIV"),
       CFUser("cyd", 1500, T0 - 199 * Day, "Bar Inst"),
       CFUser("dan", 1500, T0 - 10 * Day, "foo univ"),
       CFUser("eve", 1700, T0 - 179 * Day, "bar inst"),
       CFUser("fay", 1700, T0 - 10 * Day, None),
       CFUser("gus", 2000, T0 - 10 * Day, "Other") >>

\* The longest user.ratedList answer.
MaxUsers == 3

\* user.ratedList as the server answers it where the contests are followed.
RatedList == SubSeq(RatedUsers, 1, 3)

\* user.ratedList as the server may answer it: lists of distinct users.
RatedLists ==
    { l \in UNION {[1..n -> DOMAIN RatedUsers] : n \in 1..MaxUsers} :
         \A j, k \in DOMAIN l : j # k => l[j] # l[k] }

RatedListOf(l) == [k \in DOMAIN l |-> RatedUsers[l[k]]]

\* No command is in flight.
NoCommand == [pc |-> "idle", cmd |-> None, campus |-> None, copy |-> <<>>]

\* ------------------------------------------------------------- history

\* last.op names the step taken last: a tick that ended ("Poller", "Mover",
\* "Refresher", "Watcher", or the same with "Failed" when a fetch raised),
\* step 1 of the Refresher ("RefresherEvict"), or "Quiet" for a step that
\* touches no bucket.  last.wrote names the buckets the steps of that tick
\* have changed, and last.arg is the fetched data the step worked on (for
\* the Watcher the published contests, or its snapshot when none is).
Changed(up, on, fp, lb) ==
    (IF up # upcoming THEN {"upcoming"} ELSE {})
    \cup (IF on # ongoing THEN {"ongoing"} ELSE {})
    \cup (IF fp # finishedPending THEN {"finishedPending"} ELSE {})
    \cup (IF lb # leaderboards THEN {"leaderboards"} ELSE {})

\* ----------------------------------------------------------- the Poller

\* contest.list as the server builds it: every contest in its phase.
ContestList(phase, start) ==
    [k \in DOMAIN Contests |->
        CFContest(Contests[k], phase[Contests[k]], start[Contests[k]])]

\* PollUpcoming by the phase alone.
PollUpcomingAnyStart(contests, t) ==
    SelectSeq(contests, LAMBDA c : c.phase = BEFORE)

\* lines 157-166: the two classifications of the fetched list.
PollUpcoming(contests, t) ==
    SelectSeq(contests, LAMBDA c : c.phase = BEFORE /\ c.startTimeSeconds > t)

\* PollOngoing with the window closed at 7 days instead of open.
PollOngoingInclusive(contests, t) ==
    SelectSeq(contests, LAMBDA c :
        \/ c.phase = CODING
        \/ /\ c.phase \in {PENDING_SYSTEM_TEST, SYSTEM_TEST}
           /\ t - c.startTimeSeconds <= MaxAge)

PollOngoing(contests, t) ==
    SelectSeq(contests, LAMBDA c :
        \/ c.phase = CODING
        \/ /\ c.phase \in {PENDING_SYSTEM_TEST, SYSTEM_TEST}
           /\ t - c.startTimeSeconds < MaxAge)

\* PollMerge replacing ongoing by what was fetched.
PollMergeReplace(on, found) == found

\* PollMerge without the look-up of the id in ongoing.
PollMergeUnguarded(on, found) == on \o found

\* line 169: the fetched ongoing contests whose id is not in ongoing yet.
PollMerge(on, found) ==
    on \o SelectSeq(found, LAMBDA i : ~HasId(on, i.id))

\* lines 155-169: what the tick leaves in upcoming and in ongoing.  A fetch
\* that raises ends the tick at line 155, before any assignment.
\* PollerUpcoming taking a fetch that raised for an empty list.
PollerUpcomingCleared(resp, up, t) == PollUpcoming(resp.body, t)

PollerUpcoming(resp, up, t) ==
    IF resp.raised THEN up ELSE PollUpcoming(resp.body, t)

PollerOngoing(resp, on, t) ==
    IF resp.raised THEN on ELSE PollMerge(on, PollOngoing(resp.body, t))

\* The server answers the request of the tick; the answer is in flight.
FetchRankedContests ==
    /\ poller.pc = "idle"
    /\ \E resp \in {Raise, Return(ContestList(apiPhase, apiStart))} :
          poller' = [pc |-> "fetching", resp |-> resp]
    /\ last' = [op |-> "Quiet", wrote |-> {}, arg |-> <<>>]
    /\ UNCHANGED <<ratedList, mover, reader, lock>>
    /\ UNCHANGED <<now, apiStart, apiPhase, ratings, upcoming, ongoing, finishedPending,
                   leaderboards, refresher, watcher>>

\* lines 155-169 from the point the answer arrives.
UpdateUpcomingContests ==
    /\ poller.pc = "fetching"
    /\ poller' = [pc |-> "idle", resp |-> Return(<<>>)]
    /\ upcoming' = PollerUpcoming(poller.resp, upcoming, now)
    /\ ongoing' = PollerOngoing(poller.resp, ongoing, now)
    /\ last' = [op |-> IF poller.resp.raised THEN "PollerFailed" ELSE "Poller",
                wrote |-> Changed(upcoming', ongoing', finishedPending,
                                  leaderboards),
                arg |-> poller.resp.body]
    /\ UNCHANGED <<ratedList, mover, reader, lock>>
    /\ UNCHANGED <<now, apiStart, apiPhase, ratings, finishedPending, leaderboards,
                   refresher, watcher>>

\* --------------------------------------------------- the Lifecycle Mover

\* MoverToMove with a strict comparison.
MoverToMoveStrict(up, t) == SelectSeq(up, LAMBDA c : c.startTimeSeconds < t)

\* lines 175-181
MoverToMove(up, t) == SelectSeq(up, LAMBDA c : c.startTimeSeconds <= t)

\* MoverOngoing without the look-up of the id in ongoing.
MoverOngoingUnguarded(up, on, t) == on \o MoverToMove(up, t)

MoverOngoing(up, on, t) ==
    on \o SelectSeq(MoverToMove(up, t), LAMBDA c : ~HasId(on, c.id))

MoverUpcoming(up, t) ==
    SelectSeq(up, LAMBDA c : ~HasId(MoverToMove(up, t), c.id))

CheckOngoingContests ==
    /\ ongoing' = MoverOngoing(upcoming, ongoing, now)
    /\ upcoming' = MoverUpcoming(upcoming, now)
    /\ last' = [op |-> "Mover",
                wrote |-> Changed(upcoming', ongoing', finishedPending,
                                  leaderboards),
                arg |-> <<>>]
    /\ UNCHANGED <<ratedList, mover, reader, lock>>
    /\ UNCHANGED <<now, apiStart, apiPhase, ratings, finishedPending, leaderboards,
                   poller, refresher, watcher>>

\* ------------------------------------------------ the Ongoing Refresher

\* Stale with the window a day short.
StaleEarly(on, t) ==
    SelectSeq(on, LAMBDA c : t - c.startTimeSeconds > MaxAge - Day)

\* lines 189-192: the contests older than max_age, and ongoing without them.
Stale(on, t) == SelectSeq(on, LAMBDA c : t - c.startTimeSeconds > MaxAge)

WithoutStale(on, t) == SelectSeq(on, LAMBDA c : ~HasId(Stale(on, t), c.id))

\* lines 185-196: step 1, and the requests of step 2 go out.
RefreshOngoingEvict ==
    /\ refresher.pc = "idle"
    /\ ongoing' = WithoutStale(ongoing, now)
    /\ refresher' = [pc |-> "fetching", snapshot |-> ongoing',
                     wrote |-> Changed(upcoming, ongoing', finishedPending,
                                       leaderboards)]
    /\ last' = [op |-> "RefresherEvict", wrote |-> refresher'.wrote,
                arg |-> <<>>]
    /\ UNCHANGED <<ratedList, mover, reader, lock>>
    /\ UNCHANGED <<now, apiStart, apiPhase, ratings, upcoming, finishedPending,
                   leaderboards, poller, watcher>>

\* _fetch_ranked_contest as the server may answer it for one contest: the
\* contest in its current phase, or a reply without "result" (None).
FetchRankedContest(i) == {NoContest, CFContest(i, apiPhase[i], apiStart[i])}

\* What asyncio.gather may return for the snapshot: one answer per contest
\* in the order of the snapshot, or the exception of a fetch that raised.
GatherContests(snapshot) ==
    {Return(r) : r \in
        {u \in [DOMAIN snapshot ->
                   UNION {FetchRankedContest(i) : i \in ContestIds}] :
            \A k \in DOMAIN snapshot :
               u[k] \in FetchRankedContest(snapshot[k].id)}}
    \cup (IF snapshot = <<>> THEN {} ELSE {Raise})

\* lines 208-211: the first entry with the id of updated is replaced.
RECURSIVE ReplaceFirst(_, _)
ReplaceFirst(on, updated) ==
    IF on = <<>> THEN <<>>
    ELSE IF Head(on).id = updated.id THEN <<updated>> \o Tail(on)
    ELSE <<Head(on)>> \o ReplaceFirst(Tail(on), updated)

\* lines 203-206: a finished contest leaves ongoing and enters
\* finishedPending unless its id is there.
FinishOngoing(on, updated) == SelectSeq(on, LAMBDA c : c.id # updated.id)

\* FinishPending without the look-up of the id.
FinishPendingAppend(fp, updated) == Append(fp, updated)

FinishPending(fp, updated) ==
    IF HasId(fp, updated.id) THEN fp ELSE Append(fp, updated)

\* lines 200-211: step 3 over the answers, in order; the pair <<ongoing,
\* finishedPending>> it leaves.
RECURSIVE ApplyUpdates(_, _, _)

\* ApplyUpdates leaving the loop after the first answer.
ApplyUpdatesFirst(results, on, fp) ==
    IF results = <<>> THEN <<on, fp>>
    ELSE LET updated == Head(results)
         IN  IF updated = NoContest
             THEN <<on, fp>>
             ELSE IF updated.phase = FINISHED
             THEN <<FinishOngoing(on, updated), FinishPending(fp, updated)>>
             ELSE <<ReplaceFirst(on, updated), fp>>

\* ApplyUpdates leaving the loop at the first None.
ApplyUpdatesBreak(results, on, fp) ==
    IF results = <<>> THEN <<on, fp>>
    ELSE LET updated == Head(results)
         IN  IF updated = NoContest
             THEN <<on, fp>>
             ELSE IF updated.phase = FINISHED
             THEN ApplyUpdates(Tail(results), FinishOngoing(on, updated),
                               FinishPending(fp, updated))
             ELSE ApplyUpdates(Tail(results), ReplaceFirst(on, updated), fp)

ApplyUpdates(results, on, fp) ==
    IF results = <<>> THEN <<on, fp>>
    ELSE LET updated == Head(results)
         IN  IF updated = NoContest
             THEN ApplyUpdates(Tail(results), on, fp)
             ELSE IF updated.phase = FINISHED
             THEN ApplyUpdates(Tail(results), FinishOngoing(on, updated),
                               FinishPending(fp, updated))
             ELSE ApplyUpdates(Tail(results), ReplaceFirst(on, updated), fp)

\* lines 195-211: what the tick leaves in <<ongoing, finishedPending>>.  A
\* fetch that raises ends the tick at line 195, before step 3.
RefresherBuckets(results, on, fp) ==
    IF results.raised THEN <<on, fp>> ELSE ApplyUpdates(results.body, on, fp)

\* lines 195-211 from the point the answers of step 2 arrive.
RefreshOngoingContests ==
    /\ refresher.pc = "fetching"
    /\ refresher' = [pc |-> "idle", snapshot |-> <<>>, wrote |-> {}]
    /\ \E results \in GatherContests(refresher.snapshot) :
          /\ ongoing' = RefresherBuckets(results, ongoing, finishedPending)[1]
          /\ finishedPending' =
                 RefresherBuckets(results, ongoing, finishedPending)[2]
          /\ last' = [op |-> IF results.raised THEN "RefresherFailed"
                             ELSE "Refresher",
                      wrote |-> refresher.wrote
                                \cup Changed(upcoming, ongoing',
                                             finishedPending', leaderboards),
                      arg |-> results.body]
    /\ UNCHANGED <<ratedList, mover, reader, lock>>
    /\ UNCHANGED <<now, apiStart, apiPhase, ratings, upcoming, leaderboards, poller,
                   watcher>>

\* ---------------------------------------- the Rating-Publication Watcher

\* lines 215-218: the snapshot, and the requests go out.
UpdateCampusLeaderboards ==
    /\ watcher.pc = "idle"
    /\ watcher' = [pc |-> "polling", pending |-> finishedPending,
                   toRemove |-> <<>>]
    /\ last' = [op |-> "Quiet", wrote |-> {}, arg |-> <<>>]
    /\ UNCHANGED <<ratedList, mover, reader, lock>>
    /\ UNCHANGED <<now, apiStart, apiPhase, ratings, upcoming, ongoing, finishedPending,
                   leaderboards, poller, refresher>>

\* _rating_published for each contest of the snapshot (lines 125-132, 219):
\* the contests with a non-empty list of rating changes.
\* Published taking every contest of the snapshot for published.
PublishedAll(pending) == pending

Published(pending) == SelectSeq(pending, LAMBDA c : c.id \in ratings)

\* WithoutPublished emptying the bucket.
WithoutPublishedAll(fp, toRemove) == <<>>

\* WithoutPublished writing back the snapshot of line 216 without the
\* published contests, instead of the bucket as it is.
WithoutPublishedOfSnapshot(fp, toRemove) ==
    SelectSeq(watcher.pending,
              LAMBDA c : \A k \in DOMAIN toRemove : toRemove[k] # c)

\* line 225
WithoutPublished(fp, toRemove) ==
    SelectSeq(fp, LAMBDA c : \A k \in DOMAIN toRemove : toRemove[k] # c)

\* lines 218-222: the answers of the rating requests arrive; with a
\* published contest the request of the rated users goes out.
GatherRatingPublished ==
    /\ watcher.pc = "polling"
    /\ \E ok \in IF watcher.pending = <<>> THEN {TRUE} ELSE BOOLEAN :
          IF ~ok
          THEN /\ watcher' = [pc |-> "idle", pending |-> <<>>,
                              toRemove |-> <<>>]
               /\ last' = [op |-> "WatcherFailed", wrote |-> {}, arg |-> <<>>]
          ELSE IF Published(watcher.pending) = <<>>
          THEN /\ watcher' = [pc |-> "idle", pending |-> <<>>,
                              toRemove |-> <<>>]
               /\ last' = [op |-> "Watcher", wrote |-> {},
                           arg |-> watcher.pending]
          ELSE /\ watcher' = [watcher EXCEPT !.pc = "rebuilding",
                                 !.toRemove = Published(watcher.pending)]
               /\ last' = [op |-> "Quiet", wrote |-> {}, arg |-> <<>>]
    /\ UNCHANGED <<ratedList, mover, reader, lock>>
    /\ UNCHANGED <<now, apiStart, apiPhase, ratings, upcoming, ongoing, finishedPending,
                   leaderboards, poller, refresher>>

\* lines 134-151 and 222-225: what the tick leaves in leaderboards and in
\* finishedPending.  A fetch that raises ends the tick at line 135.
\* WatcherLeaderboards writing the campus lists into the mapping in place.
WatcherLeaderboardsMerged(users, lb, t) ==
    IF users.raised THEN lb ELSE CampusLeaderboards(users.body, t) @@ lb

\* WatcherLeaderboards assigning the new, still empty mapping of line 136
\* before the fetch.
WatcherLeaderboardsCleared(users, lb, t) ==
    IF users.raised THEN EmptyBoards ELSE CampusLeaderboards(users.body, t)

WatcherLeaderboards(users, lb, t) ==
    IF users.raised THEN lb ELSE CampusLeaderboards(users.body, t)

\* WatcherPending removing the published contests whether or not the
\* rebuild went through.
WatcherPendingAlways(users, fp, toRemove) == WithoutPublished(fp, toRemove)

WatcherPending(users, fp, toRemove) ==
    IF users.raised THEN fp ELSE WithoutPublished(fp, toRemove)

\* lines 134-151 and 224-225 from the point the rated users arrive.
RefreshCampusLeaderboards ==
    /\ watcher.pc = "rebuilding"
    /\ watcher' = [pc |-> "idle", pending |-> <<>>, toRemove |-> <<>>]
    /\ \E users \in {Raise, Return(ratedList)} :
          /\ leaderboards' = WatcherLeaderboards(users, leaderboards, now)
          /\ finishedPending' = WatcherPending(users, finishedPending,
                                               watcher.toRemove)
          /\ last' = [op |-> IF users.raised THEN "WatcherFailed" ELSE "Watcher",
                      wrote |-> Changed(upcoming, ongoing, finishedPending',
                                        leaderboards'),
                      arg |-> watcher.toRemove]
    /\ UNCHANGED <<ratedList, mover, reader, lock>>
    /\ UNCHANGED <<now, apiStart, apiPhase, ratings, upcoming, ongoing, poller,
                   refresher>>

\* ------------------------------------------------------ the environment

ClockAdvance ==
    /\ now < T0 + MaxDays * Day
    /\ now' = now + Day
    /\ last' = [op |-> "Quiet", wrote |-> {}, arg |-> <<>>]
    /\ UNCHANGED <<ratedList, mover, reader, lock>>
    /\ UNCHANGED <<apiStart, apiPhase, ratings, upcoming, ongoing, finishedPending,
                   leaderboards, poller, refresher, watcher>>

\* The remote API moves a started contest to a later phase of its path; a
\* phase never regresses.
ApiAdvance ==
    /\ \E i \in ContestIds, k \in 1..Cardinality(ContestPhase) :
          /\ k \in DOMAIN ApiPath(i)
          /\ PhaseRank(ApiPath(i)[k]) > PhaseRank(apiPhase[i])
          /\ now >= apiStart[i]
          /\ apiPhase' = [apiPhase EXCEPT ![i] = ApiPath(i)[k]]
    /\ last' = [op |-> "Quiet", wrote |-> {}, arg |-> <<>>]
    /\ UNCHANGED <<ratedList, mover, reader, lock>>
    /\ UNCHANGED <<now, apiStart, ratings, upcoming, ongoing, finishedPending,
                   leaderboards, poller, refresher, watcher>>

\* The remote API postpones a contest that has not started by a day, once.
ApiPostpone ==
    /\ \E i \in ContestIds :
          /\ apiPhase[i] = BEFORE
          /\ apiStart[i] = StartOf(i)
          /\ now < apiStart[i]
          /\ apiStart' = [apiStart EXCEPT ![i] = @ + Day]
    /\ last' = [op |-> "Quiet", wrote |-> {}, arg |-> <<>>]
    /\ UNCHANGED <<ratedList, mover, reader, lock>>
    /\ UNCHANGED <<now, apiPhase, ratings, upcoming, ongoing, finishedPending,
                   leaderboards, poller, refresher, watcher>>

\* The remote API publishes the rating changes of a finished contest.
ApiPublish ==
    /\ \E i \in ContestIds :
          /\ apiPhase[i] = FINISHED
          /\ i \notin ratings
          /\ ratings' = ratings \cup {i}
    /\ last' = [op |-> "Quiet", wrote |-> {}, arg |-> <<>>]
    /\ UNCHANGED <<ratedList, mover, reader, lock>>
    /\ UNCHANGED <<now, apiStart, apiPhase, upcoming, ongoing, finishedPending,
                   leaderboards, poller, refresher, watcher>>

\* --------------------------------------------------------------- system

Init ==
    /\ now = T0
    /\ apiStart = [i \in ContestIds |-> StartOf(i)]
    /\ apiPhase = [i \in ContestIds |-> ApiPath(i)[1]]
    /\ ratings = {}
    /\ ratedList = RatedList
    /\ upcoming = <<>>
    /\ ongoing = <<>>
    /\ finishedPending = <<>>
    /\ leaderboards = EmptyBoards
    /\ poller = [pc |-> "idle", resp |-> Return(<<>>)]
    /\ refresher = [pc |-> "idle", snapshot |-> <<>>, wrote |-> {}]
    /\ watcher = [pc |-> "idle", pending |-> <<>>, toRemove |-> <<>>]
    /\ mover = [pc |-> "idle"]
    /\ reader = NoCommand
    /\ lock = None
    /\ last = [op |-> "Init", wrote |-> {}, arg |-> <<>>]

Next ==
    \/ FetchRankedContests
    \/ UpdateUpcomingContests
    \/ CheckOngoingContests
    \/ RefreshOngoingEvict
    \/ RefreshOngoingContests
    \/ UpdateCampusLeaderboards
    \/ GatherRatingPublished
    \/ RefreshCampusLeaderboards
    \/ ClockAdvance
    \/ ApiAdvance
    \/ ApiPublish
    \/ ApiPostpone

Spec == Init /\ [][Next]_vars

\* The rebuild of the leaderboards over the rated lists the server may
\* answer.  It starts a day on, where both contests have finished and the
\* Refresher has moved them to finishedPending, with any one of the lists,
\* and runs the Watcher against the clock and the publication of ratings.
InitBoards ==
    /\ now = T0 + Day
    /\ apiStart = [i \in ContestIds |-> StartOf(i)]
    /\ apiPhase = [i \in ContestIds |-> FINISHED]
    /\ ratings = {}
    /\ ratedList \in {RatedListOf(l) : l \in RatedLists}
    /\ upcoming = <<>>
    /\ ongoing = <<>>
    /\ finishedPending = [k \in DOMAIN Contests |->
                             CFContest(Contests[k], FINISHED, StartOf(Contests[k]))]
    /\ leaderboards = EmptyBoards
    /\ poller = [pc |-> "idle", resp |-> Return(<<>>)]
    /\ refresher = [pc |-> "idle", snapshot |-> <<>>, wrote |-> {}]
    /\ watcher = [pc |-> "idle", pending |-> <<>>, toRemove |-> <<>>]
    /\ mover = [pc |-> "idle"]
    /\ reader = NoCommand
    /\ lock = None
    /\ last = [op |-> "Init", wrote |-> {}, arg |-> <<>>]

NextBoards ==
    \/ UpdateCampusLeaderboards
    \/ GatherRatingPublished
    \/ RefreshCampusLeaderboards
    \/ ClockAdvance
    \/ ApiPublish

SpecBoards == InitBoards /\ [][NextBoards]_vars

\* The loops within one day, the Watcher scheduled fairly: discord.ext.tasks
\* starts a tick of update_campus_leaderboards every ten minutes, and a
\* tick goes on when the answer it waits for arrives.  Nothing is assumed
\* of the other loops and of the API.
NextDay ==
    \/ FetchRankedContests
    \/ UpdateUpcomingContests
    \/ CheckOngoingContests
    \/ RefreshOngoingEvict
    \/ RefreshOngoingContests
    \/ UpdateCampusLeaderboards
    \/ GatherRatingPublished
    \/ RefreshCampusLeaderboards
    \/ ApiAdvance
    \/ ApiPublish

WatcherFairness ==
    /\ WF_vars(UpdateCampusLeaderboards)
    /\ WF_vars(GatherRatingPublished)
    /\ WF_vars(RefreshCampusLeaderboards)

SpecWatcherFair == Init /\ [][NextDay]_vars /\ WatcherFairness

\* The contests on their way into finishedPending over the days, the
\* Refresher scheduled fairly: discord.ext.tasks starts a tick of
\* refresh_ongoing_contests every five minutes, and a tick goes on when the
\* answers it waits for arrive.  The Watcher, which only takes contests out
\* of finishedPending, is left out.
NextOngoing ==
    \/ FetchRankedContests
    \/ UpdateUpcomingContests
    \/ CheckOngoingContests
    \/ RefreshOngoingEvict
    \/ RefreshOngoingContests
    \/ ClockAdvance
    \/ ApiAdvance

RefresherFairness ==
    /\ WF_vars(RefreshOngoingEvict)
    /\ WF_vars(RefreshOngoingContests)

SpecRefresherFair == Init /\ [][NextOngoing]_vars /\ RefresherFairness

\* ------------------------------------------------------------- the lock

\* The same loops and the two commands statement by statement: entering an
\* `async with self._lock` block is a step of its own, which waits while
\* another task is inside one, and the block's reads and writes follow in
\* the next step, which also leaves the block.  A step that reads or writes
\* a bucket records in last.op whether its task was inside a block; the
\* Refresher's write-back records in last.arg the answers it applied, and
\* a command's last step what it answered.
remote == <<now, apiStart, apiPhase, ratings, ratedList>>

NoAccess == [op |-> "Quiet", wrote |-> {}, arg |-> <<>>]

Access(task) ==
    [op |-> IF lock = task THEN "Locked" ELSE "Unlocked",
     wrote |-> {}, arg |-> <<>>]

\* `async with self._lock:` entered and left.
Enter(task) == task
Leave == None

\* lines 155-167: the answer arrives; the tick ends if the fetch raised,
\* else it sorts the contests and enters the block.
PollerAcquire ==
    /\ poller.pc = "fetching"
    /\ IF poller.resp.raised
       THEN /\ poller' = [pc |-> "idle", resp |-> Return(<<>>)]
            /\ UNCHANGED lock
       ELSE /\ lock = None
            /\ lock' = Enter("poller")
            /\ poller' = [poller EXCEPT !.pc = "locked"]
    /\ last' = NoAccess
    /\ UNCHANGED <<remote, buckets, refresher, watcher, mover, reader>>

\* lines 168-169
PollerWrite ==
    /\ poller.pc = "locked"
    /\ upcoming' = PollerUpcoming(poller.resp, upcoming, now)
    /\ ongoing' = PollerOngoing(poller.resp, ongoing, now)
    /\ poller' = [pc |-> "idle", resp |-> Return(<<>>)]
    /\ lock' = Leave
    /\ last' = Access("poller")
    /\ UNCHANGED <<remote, finishedPending, leaderboards, refresher, watcher,
                   mover, reader>>

\* lines 173-174
MoverAcquire ==
    /\ mover.pc = "idle"
    /\ lock = None
    /\ lock' = Enter("mover")
    /\ mover' = [pc |-> "locked"]
    /\ last' = NoAccess
    /\ UNCHANGED <<remote, buckets, poller, refresher, watcher, reader>>

\* lines 175-181
MoverWrite ==
    /\ mover.pc = "locked"
    /\ ongoing' = MoverOngoing(upcoming, ongoing, now)
    /\ upcoming' = MoverUpcoming(upcoming, now)
    /\ mover' = [pc |-> "idle"]
    /\ lock' = Leave
    /\ last' = Access("mover")
    /\ UNCHANGED <<remote, finishedPending, leaderboards, poller, refresher,
                   watcher, reader>>

\* lines 185-188
RefresherAcquire ==
    /\ refresher.pc = "idle"
    /\ lock = None
    /\ lock' = Enter("refresher")
    /\ refresher' = [refresher EXCEPT !.pc = "locked"]
    /\ last' = NoAccess
    /\ UNCHANGED <<remote, buckets, poller, watcher, mover, reader>>

\* The gather of line 195 moved into the block of lines 188-193.
RefresherGatherInside(l) == l

\* lines 193-195: the block ends before the gather.
RefresherGatherOutside(l) == Leave

\* lines 189-197
RefresherSnapshot ==
    /\ refresher.pc = "locked"
    /\ ongoing' = WithoutStale(ongoing, now)
    /\ refresher' = [pc |-> "fetching", snapshot |-> ongoing', wrote |-> {}]
    /\ lock' = RefresherGatherOutside(lock)
    /\ last' = Access("refresher")
    /\ UNCHANGED <<remote, upcoming, finishedPending, leaderboards, poller,
                   watcher, mover, reader>>

\* lines 195-199: the answers arrive; the tick ends if a fetch raised, else
\* it enters the second block.
RefresherAcquireAgain ==
    /\ refresher.pc = "fetching"
    /\ \E results \in GatherContests(refresher.snapshot) :
          IF results.raised
          THEN /\ refresher' = [pc |-> "idle", snapshot |-> <<>>, wrote |-> {}]
               /\ UNCHANGED lock
          ELSE /\ lock = None
               /\ lock' = Enter("refresher")
               /\ refresher' = [pc |-> "applying", snapshot |-> results.body,
                                wrote |-> {}]
    /\ last' = NoAccess
    /\ UNCHANGED <<remote, buckets, poller, watcher, mover, reader>>

\* lines 200-211
RefresherApply ==
    /\ refresher.pc = "applying"
    /\ ongoing' = ApplyUpdates(refresher.snapshot, ongoing, finishedPending)[1]
    /\ finishedPending' =
          ApplyUpdates(refresher.snapshot, ongoing, finishedPending)[2]
    /\ refresher' = [pc |-> "idle", snapshot |-> <<>>, wrote |-> {}]
    /\ lock' = Leave
    /\ last' = [Access("refresher") EXCEPT !.arg = refresher.snapshot]
    /\ UNCHANGED <<remote, upcoming, leaderboards, poller, watcher, mover,
                   reader>>

\* line 215
WatcherAcquire ==
    /\ watcher.pc = "idle"
    /\ lock = None
    /\ lock' = Enter("watcher")
    /\ watcher' = [watcher EXCEPT !.pc = "locked"]
    /\ last' = NoAccess
    /\ UNCHANGED <<remote, buckets, poller, refresher, mover, reader>>

\* The gather of line 218 and the rebuild of line 222 moved into the block
\* of lines 215-216.
WatcherGatherInside(l) == l

\* lines 216-218: the block ends before the gather and the rebuild.
WatcherGatherOutside(l) == Leave

\* lines 216-218
WatcherSnapshot ==
    /\ watcher.pc = "locked"
    /\ watcher' = [pc |-> "polling", pending |-> finishedPending,
                   toRemove |-> <<>>]
    /\ lock' = WatcherGatherOutside(lock)
    /\ last' = Access("watcher")
    /\ UNCHANGED <<remote, buckets, poller, refresher, mover, reader>>

\* lines 135-149: the rated users arrive; the tick ends if the fetch
\* raised, else it builds the mapping and enters the block.
RebuildAcquire ==
    /\ watcher.pc = "rebuilding"
    /\ \E users \in {Raise, Return(ratedList)} :
          IF users.raised
          THEN /\ watcher' = [pc |-> "idle", pending |-> <<>>,
                              toRemove |-> <<>>]
               /\ UNCHANGED lock
          ELSE /\ lock = None
               /\ lock' = Enter("watcher")
               /\ watcher' = [watcher EXCEPT !.pc = "assigning"]
    /\ last' = NoAccess
    /\ UNCHANGED <<remote, buckets, poller, refresher, mover, reader>>

\* lines 150-151
RebuildAssign ==
    /\ watcher.pc = "assigning"
    /\ leaderboards' = CampusLeaderboards(ratedList, now)
    /\ watcher' = [watcher EXCEPT !.pc = "assigned"]
    /\ lock' = Leave
    /\ last' = Access("watcher")
    /\ UNCHANGED <<remote, upcoming, ongoing, finishedPending, poller,
                   refresher, mover, reader>>

\* line 224
WatcherAcquireAgain ==
    /\ watcher.pc = "assigned"
    /\ lock = None
    /\ lock' = Enter("watcher")
    /\ watcher' = [watcher EXCEPT !.pc = "removing"]
    /\ last' = NoAccess
    /\ UNCHANGED <<remote, buckets, poller, refresher, mover, reader>>

\* line 225
WatcherRemove ==
    /\ watcher.pc = "removing"
    /\ finishedPending' = WithoutPublished(finishedPending, watcher.toRemove)
    /\ watcher' = [pc |-> "idle", pending |-> <<>>, toRemove |-> <<>>]
    /\ lock' = Leave
    /\ last' = Access("watcher")
    /\ UNCHANGED <<remote, upcoming, ongoing, leaderboards, poller, refresher,
                   mover, reader>>

\* The two commands, and the campus argument of `leaderboard` (None when
\* it is left out; `upcoming_contests` has none).
Commands == {"leaderboard", "upcoming_contests"}

CampusArgs(cmd) ==
    IF cmd = "leaderboard"
    THEN {None} \cup {Campuses[k] : k \in DOMAIN Campuses}
    ELSE {None}

\* lines 273 and 304
CommandAcquire ==
    /\ reader.pc = "idle"
    /\ lock = None
    /\ lock' = Enter("reader")
    /\ \E cmd \in Commands : \E campus \in CampusArgs(cmd) :
          reader' = [pc |-> "locked", cmd |-> cmd, campus |-> campus,
                     copy |-> <<>>]
    /\ last' = NoAccess
    /\ UNCHANGED <<remote, buckets, poller, refresher, watcher, mover>>

\* CommandSnapshot with `upcoming_contests` copying the contests under way.
CommandSnapshotOngoing(cmd) ==
    IF cmd = "leaderboard" THEN leaderboards ELSE ongoing

\* lines 274 and 305: the bucket the command copies.
CommandSnapshot(cmd) == IF cmd = "leaderboard" THEN leaderboards ELSE upcoming

\* lines 274 and 305: the copy of the bucket; the answer to the user is
\* sent after the block.
CommandCopy ==
    /\ reader.pc = "locked"
    /\ reader' = [reader EXCEPT !.pc = "responding",
                                !.copy = CommandSnapshot(reader.cmd)]
    /\ lock' = Leave
    /\ last' = Access("reader")
    /\ UNCHANGED <<remote, buckets, poller, refresher, watcher, mover>>

\* lines 276-297 and 307-344: what the command answers from its copy, a
\* message or the pages of the paginator.
Response(cmd, campus, copy) ==
    IF cmd = "leaderboard"
    THEN IF copy = EmptyBoards
         THEN <<"No leaderboard data available yet.">>
         ELSE IF campus # None
         THEN IF campus \notin DOMAIN copy \/ copy[campus] = <<>>
              THEN <<"No users found for campus.", campus>>
              ELSE <<"pages", [c \in {campus} |-> copy[c]]>>
         ELSE <<"pages", copy>>
    ELSE IF copy = <<>>
         THEN <<"There are no upcoming CodeForces contests at the moment.">>
         ELSE <<"pages", copy>>

CommandRespond ==
    /\ reader.pc = "responding"
    /\ reader' = NoCommand
    /\ last' = [op |-> "Quiet", wrote |-> {},
                arg |-> Response(reader.cmd, reader.campus, reader.copy)]
    /\ UNCHANGED <<remote, buckets, poller, refresher, watcher, mover, lock>>

NextLock ==
    \/ FetchRankedContests
    \/ PollerAcquire
    \/ PollerWrite
    \/ MoverAcquire
    \/ MoverWrite
    \/ RefresherAcquire
    \/ RefresherSnapshot
    \/ RefresherAcquireAgain
    \/ RefresherApply
    \/ WatcherAcquire
    \/ WatcherSnapshot
    \/ GatherRatingPublished
    \/ RebuildAcquire
    \/ RebuildAssign
    \/ WatcherAcquireAgain
    \/ WatcherRemove
    \/ CommandAcquire
    \/ CommandCopy
    \/ CommandRespond
    \/ ApiAdvance
    \/ ApiPublish

\* A day after start-up: the Poller has loaded contest 1 into upcoming and
\* contest 2 into ongoing at start-up, and contest 1 starts this second.
InitDayOne ==
    /\ now = T0 + Day
    /\ apiStart = [i \in ContestIds |-> StartOf(i)]
    /\ apiPhase = [i \in ContestIds |-> ApiPath(i)[1]]
    /\ ratings = {}
    /\ ratedList = RatedList
    /\ upcoming = <<CFContest(1, BEFORE, StartOf(1))>>
    /\ ongoing = <<CFContest(2, SYSTEM_TEST, StartOf(2))>>
    /\ finishedPending = <<>>
    /\ leaderboards = EmptyBoards
    /\ poller = [pc |-> "idle", resp |-> Return(<<>>)]
    /\ refresher = [pc |-> "idle", snapshot |-> <<>>, wrote |-> {}]
    /\ watcher = [pc |-> "idle", pending |-> <<>>, toRemove |-> <<>>]
    /\ mover = [pc |-> "idle"]
    /\ reader = NoCommand
    /\ lock = None
    /\ last = [op |-> "Init", wrote |-> {}, arg |-> <<>>]

\* The statement-level steps run within one day, the day of start-up or the
\* day after; the passing of days is followed by Spec.
InitLock == Init \/ InitDayOne

SpecLock == InitLock /\ [][NextLock]_vars

\* The statement-level steps under the scheduling of asyncio.  A block holds
\* no await, so a task inside one goes on to leave it (weak fairness of the
\* steps that leave a block).  asyncio.Lock wakes its waiters first come,
\* first served, so a task that waits at `async with self._lock` while the
\* lock comes free again and again gets it (strong fairness of the steps
\* that enter a block in the middle of a tick).
LockFairness ==
    /\ WF_vars(PollerWrite)
    /\ WF_vars(MoverWrite)
    /\ WF_vars(RefresherSnapshot)
    /\ WF_vars(RefresherApply)
    /\ WF_vars(WatcherSnapshot)
    /\ WF_vars(RebuildAssign)
    /\ WF_vars(WatcherRemove)
    /\ WF_vars(CommandCopy)
    /\ SF_vars(PollerAcquire)
    /\ SF_vars(RefresherAcquireAgain)
    /\ SF_vars(RebuildAcquire)
    /\ SF_vars(WatcherAcquireAgain)

SpecLockFair == Init /\ [][NextLock]_vars /\ LockFairness

\* ---------------------------------------------------------- properties

\* How often id i occurs in a bucket.
Count(seq, i) == Cardinality({k \in DOMAIN seq : seq[k].id = i})

Age(c) == now - c.startTimeSeconds

\* C1: in every reachable state each contest id appears in at most one of
\* upcoming, ongoing and finishedPending.
C1_BucketsDisjoint ==
    \A i \in ContestIds :
        Cardinality({b \in {1, 2, 3} :
            HasId(<<upcoming, ongoing, finishedPending>>[b], i)}) <= 1

\* C2 as stated: right after a Refresher tick and right after a Poller tick
\* every contest in ongoing started at most 7 days ago.
C2_Original ==
    last.op \in {"Refresher", "Poller"} =>
        \A k \in DOMAIN ongoing : Age(ongoing[k]) <= MaxAge

\* C2 as amended: right after step 1 of a Refresher tick every contest in
\* ongoing started at most 7 days ago, and a Poller tick appends no contest
\* in PENDING_SYSTEM_TEST or SYSTEM_TEST that started 7 days ago or earlier.
\* The Poller evicts nothing.
C2_EvictAndAppend ==
    [][ /\ last'.op = "RefresherEvict" =>
              \A k \in DOMAIN ongoing' : now' - ongoing'[k].startTimeSeconds <= MaxAge
        /\ last'.op = "Poller" =>
              /\ SubSeq(ongoing', 1, Len(ongoing)) = ongoing
              /\ \A k \in (Len(ongoing) + 1)..Len(ongoing') :
                    ongoing'[k].phase \in {PENDING_SYSTEM_TEST, SYSTEM_TEST}
                       => now' - ongoing'[k].startTimeSeconds < MaxAge ]_vars

\* A Poller tick has fetched a SYSTEM_TEST contest that started 8 days ago
\* and has not put it into ongoing.
C2_Witness ==
    /\ last.op = "Poller"
    /\ \E k \in DOMAIN last.arg :
          /\ last.arg[k].phase = SYSTEM_TEST
          /\ Age(last.arg[k]) = 8 * Day
          /\ ~HasId(ongoing, last.arg[k].id)

\* C3: a contest for which a Refresher tick received phase FINISHED is, at
\* the end of that tick, absent from ongoing and exactly once in
\* finishedPending.
C3_FinishedMoved ==
    last.op = "Refresher" =>
        \A k \in DOMAIN last.arg :
            last.arg[k].phase = FINISHED =>
                /\ ~HasId(ongoing, last.arg[k].id)
                /\ Count(finishedPending, last.arg[k].id) = 1

\* A Refresher tick received FINISHED for a contest whose id was in
\* finishedPending already: finishedPending is as it was.
C3_Witness ==
    /\ last.op = "Refresher"
    /\ \E k \in DOMAIN last.arg : last.arg[k].phase = FINISHED
    /\ "ongoing" \in last.wrote
    /\ "finishedPending" \notin last.wrote

\* C4: right after a Mover tick, a second Mover tick at the same clock value
\* leaves upcoming and ongoing as they are, and no id is twice in either.
C4_MoverIdempotent ==
    last.op = "Mover" =>
        /\ MoverOngoing(upcoming, ongoing, now) = ongoing
        /\ MoverUpcoming(upcoming, now) = upcoming
        /\ \A i \in ContestIds :
              Count(ongoing, i) <= 1 /\ Count(upcoming, i) <= 1

\* A Mover tick has taken a contest out of upcoming whose id was in ongoing.
C4_Witness ==
    /\ last.op = "Mover"
    /\ last.wrote = {"upcoming"}
    /\ ongoing # <<>>

\* C5: a Mover tick at clock value now leaves in upcoming exactly the
\* contests with startTime > now, in their order; every contest it took out
\* is in ongoing; ongoing keeps its entries and gains one entry per moved
\* id that was not there.
C5_MoverMovesStarted ==
    [][ last'.op = "Mover" =>
          /\ \A k \in DOMAIN upcoming' : upcoming'[k].startTimeSeconds > now
          /\ \A k \in DOMAIN upcoming :
                IF upcoming[k].startTimeSeconds <= now
                THEN /\ HasId(ongoing', upcoming[k].id)
                     /\ ~HasId(upcoming', upcoming[k].id)
                     /\ Count(ongoing', upcoming[k].id) =
                           IF HasId(ongoing, upcoming[k].id)
                           THEN Count(ongoing, upcoming[k].id) ELSE 1
                ELSE \E j \in DOMAIN upcoming' : upcoming'[j] = upcoming[k]
          /\ Len(upcoming') =
                Cardinality({k \in DOMAIN upcoming :
                                upcoming[k].startTimeSeconds > now})
          /\ SubSeq(ongoing', 1, Len(ongoing)) = ongoing
          /\ \A k \in (Len(ongoing) + 1)..Len(ongoing') :
                \E j \in DOMAIN upcoming : upcoming[j] = ongoing'[k] ]_vars

\* A Mover tick has moved a contest at the very second of its start.
C5_Witness ==
    /\ last.op = "Mover"
    /\ last.wrote = {"upcoming", "ongoing"}
    /\ \E k \in DOMAIN ongoing :
          ongoing[k].phase = BEFORE /\ ongoing[k].startTimeSeconds = now

\* The contests the Poller counts as ongoing at clock value t.
CountsAsOngoing(c, t) ==
    \/ c.phase = CODING
    \/ /\ c.phase \in {PENDING_SYSTEM_TEST, SYSTEM_TEST}
       /\ t - c.startTimeSeconds < MaxAge

\* C6: after a Poller tick whose fetch returned, upcoming holds exactly the
\* fetched contests in phase BEFORE with startTime > now, and the entries
\* appended to ongoing are exactly the fetched contests that count as
\* ongoing and whose id was not in ongoing.
C6_PollerClassifies ==
    [][ last'.op = "Poller" =>
          LET fetched == poller.resp.body
              added == SubSeq(ongoing', Len(ongoing) + 1, Len(ongoing'))
          IN  /\ \A k \in DOMAIN fetched :
                    (fetched[k].phase = BEFORE /\ fetched[k].startTimeSeconds > now)
                       <=> \E j \in DOMAIN upcoming' : upcoming'[j] = fetched[k]
              /\ \A j \in DOMAIN upcoming' :
                    \E k \in DOMAIN fetched : upcoming'[j] = fetched[k]
              /\ \A i \in ContestIds : Count(upcoming', i) <= 1
              /\ \A k \in DOMAIN fetched :
                    (CountsAsOngoing(fetched[k], now) /\ ~HasId(ongoing, fetched[k].id))
                       <=> \E j \in DOMAIN added : added[j] = fetched[k]
              /\ \A j \in DOMAIN added :
                    \E k \in DOMAIN fetched : added[j] = fetched[k]
              /\ \A i \in ContestIds : Count(added, i) <= 1 ]_vars

\* A Poller tick has put a SYSTEM_TEST contest that started 6 days ago into
\* ongoing and a future contest into upcoming.
C6_Witness ==
    /\ last.op = "Poller"
    /\ "ongoing" \in last.wrote
    /\ upcoming # <<>>
    /\ \E k \in DOMAIN ongoing :
          ongoing[k].phase = SYSTEM_TEST /\ Age(ongoing[k]) = 6 * Day

\* C7: a Poller tick leaves every entry of ongoing in its place with its
\* value; what it adds comes after them.
C7_PollerAdditive ==
    [][ last'.op = "Poller" =>
          /\ Len(ongoing') >= Len(ongoing)
          /\ \A k \in DOMAIN ongoing : ongoing'[k] = ongoing[k] ]_vars

\* A Poller tick has kept an entry of ongoing that the Mover promoted and
\* that the fetched list still shows in phase BEFORE.
C7_Witness ==
    /\ last.op = "Poller"
    /\ Len(ongoing) = 2
    /\ \E k \in DOMAIN last.arg :
          /\ last.arg[k].phase = BEFORE
          /\ HasId(ongoing, last.arg[k].id)

\* C8: a Poller tick whose fetch raised leaves the four buckets as they
\* were.
C8_PollerFailureMutatesNothing ==
    [][ last'.op = "PollerFailed" => UNCHANGED buckets ]_vars

\* A Poller tick has failed with contests in upcoming and in ongoing.
C8_Witness ==
    /\ last.op = "PollerFailed"
    /\ upcoming # <<>>
    /\ ongoing # <<>>

\* C9 as stated: the steps of a Refresher or Watcher tick that failed have
\* changed no bucket.
C9_Original ==
    last.op \in {"RefresherFailed", "WatcherFailed"} => last.wrote = {}

\* C9 as amended: a Watcher tick that failed has changed no bucket.  A
\* Refresher tick that failed has applied no answer: its step 1 took the
\* contests that started more than 7 days ago out of ongoing and changed
\* nothing else, and the step in which it failed changed nothing.
C9_FailedTickOnlyEvicts ==
    [][ /\ last'.op = "WatcherFailed" =>
              UNCHANGED buckets /\ last'.wrote = {}
        /\ last'.op = "RefresherFailed" =>
              UNCHANGED buckets /\ last'.wrote \subseteq {"ongoing"}
        /\ last'.op = "RefresherEvict" =>
              /\ UNCHANGED <<upcoming, finishedPending, leaderboards>>
              /\ ongoing' = SelectSeq(ongoing, LAMBDA c : Age(c) <= MaxAge)
        /\ last'.op = "Quiet" => UNCHANGED buckets ]_vars

\* A Refresher tick has failed after its step 1 evicted a contest.
C9_Witness ==
    /\ last.op = "RefresherFailed"
    /\ last.wrote = {"ongoing"}

\* C10: in a Refresher tick whose fetches all returned, a contest answered
\* with None keeps its entries in ongoing and its presence or absence in
\* finishedPending, and every other answer is applied: a FINISHED contest
\* is out of ongoing and in finishedPending, any other replaces its entry.
C10_NotFoundSkipped ==
    [][ last'.op = "Refresher" =>
          \A k \in DOMAIN last'.arg :
             LET i == refresher.snapshot[k].id
                 updated == last'.arg[k]
             IN  IF updated = NoContest
                 THEN /\ SelectSeq(ongoing', LAMBDA c : c.id = i)
                           = SelectSeq(ongoing, LAMBDA c : c.id = i)
                      /\ HasId(finishedPending', i) <=> HasId(finishedPending, i)
                 ELSE IF updated.phase = FINISHED
                 THEN ~HasId(ongoing', i) /\ HasId(finishedPending', i)
                 ELSE HasId(ongoing, i) =>
                         \E j \in DOMAIN ongoing' : ongoing'[j] = updated ]_vars

\* A Refresher tick got None for one contest, which is still in ongoing,
\* and FINISHED for another, which it moved.
C10_Witness ==
    /\ last.op = "Refresher"
    /\ Len(last.arg) = 2
    /\ last.arg[1] = NoContest
    /\ last.arg[2].phase = FINISHED
    /\ Len(ongoing) = 1
    /\ HasId(finishedPending, last.arg[2].id)

\* The Watcher's rating requests are out and this step brings the answers.
WatcherAnswers == watcher.pc = "polling" /\ watcher'.pc # "polling"

\* C11: when the answers of a Watcher tick show no contest of its snapshot
\* as published, the tick ends there: no request for the rated users goes
\* out, and finishedPending and leaderboards stay as they are.
C11_NoPublicationNoRebuild ==
    [][ (/\ WatcherAnswers
         /\ \A k \in DOMAIN watcher.pending : watcher.pending[k].id \notin ratings)
        => /\ watcher'.pc = "idle"
           /\ UNCHANGED <<finishedPending, leaderboards>> ]_vars

\* A Watcher tick has ended on a snapshot with a finished contest whose
\* ratings are not out; the contest is still in finishedPending.
C11_Witness ==
    /\ last.op = "Watcher"
    /\ last.arg # <<>>
    /\ \A k \in DOMAIN last.arg :
          /\ last.arg[k].id \notin ratings
          /\ HasId(finishedPending, last.arg[k].id)
    /\ watcher.pc = "idle"

\* What a rebuild at clock value t makes of a fetched list, said without
\* the steps that build it: the users seen at or after the cutoff, each with
\* the first campus that has its organization up to case; a campus list has
\* the users of the campus, higher ratings first and equal ratings in the
\* order of the fetched list.
SeenSince(u, t) == u.lastOnlineTimeSeconds >= t - UserCutoffDays * Day

HasOrg(u, c) ==
    /\ u.organization \notin {None, ""}
    /\ \E o \in OrgsOf(c) : Casefold(o) = Casefold(u.organization)

HomeCampus(u) ==
    IF \E k \in DOMAIN Campuses : HasOrg(u, Campuses[k])
    THEN Campuses[CHOOSE k \in DOMAIN Campuses :
                     /\ HasOrg(u, Campuses[k])
                     /\ \A j \in 1..(k - 1) : ~HasOrg(u, Campuses[j])]
    ELSE None

Members(users, c, t) ==
    {k \in DOMAIN users : SeenSince(users[k], t) /\ HomeCampus(users[k]) = c}

Pos(users, u) == CHOOSE k \in DOMAIN users : users[k] = u

IsBoardOf(board, users, t) ==
    /\ DOMAIN board = {Campuses[k] : k \in {j \in DOMAIN Campuses :
                                              Members(users, Campuses[j], t) # {}}}
    /\ \A c \in DOMAIN board :
          /\ Len(board[c]) = Cardinality(Members(users, c, t))
          /\ \A k \in Members(users, c, t) :
                \E j \in DOMAIN board[c] : board[c][j] = users[k]
          /\ \A j \in 1..(Len(board[c]) - 1) :
                \/ board[c][j].rating > board[c][j + 1].rating
                \/ /\ board[c][j].rating = board[c][j + 1].rating
                   /\ Pos(users, board[c][j]) < Pos(users, board[c][j + 1])

\* C12: in a Watcher tick with a published contest, the published contests
\* stay in finishedPending while the rebuild waits for the rated users; the
\* step that completes the rebuild leaves the full rebuilt mapping in
\* leaderboards and takes exactly the published contests out of
\* finishedPending, the others keeping their order; a rebuild that fails
\* removes nothing.
C12_RebuildThenRemove ==
    [][ /\ watcher'.pc = "rebuilding" =>
              /\ watcher'.toRemove # <<>>
              /\ \A k \in DOMAIN watcher'.toRemove :
                    /\ watcher'.toRemove[k].id \in ratings'
                    /\ \E j \in DOMAIN finishedPending' :
                          finishedPending'[j] = watcher'.toRemove[k]
        /\ (watcher.pc = "rebuilding" /\ watcher'.pc = "idle") =>
              IF last'.op = "Watcher"
              THEN /\ IsBoardOf(leaderboards', ratedList, now)
                   /\ finishedPending' =
                         SelectSeq(finishedPending, LAMBDA c :
                            \A k \in DOMAIN watcher.toRemove :
                               watcher.toRemove[k].id # c.id)
              ELSE UNCHANGED <<finishedPending, leaderboards>> ]_vars

\* A Watcher tick has rebuilt the leaderboards and removed the published
\* contest; the unpublished contest of its snapshot is still pending.
C12_Witness ==
    /\ last.op = "Watcher"
    /\ last.wrote = {"finishedPending", "leaderboards"}
    /\ Len(last.arg) = 1
    /\ ~HasId(finishedPending, last.arg[1].id)
    /\ \E k \in DOMAIN finishedPending : finishedPending[k].id \notin ratings
    /\ leaderboards # EmptyBoards

\* The clock values a rebuild may have run at.
RebuildTimes == {T0 + d * Day : d \in 0..MaxDays}

C14_SortedStable ==
    \A c \in DOMAIN leaderboards :
       \A j, k \in DOMAIN leaderboards[c] :
          j < k =>
             /\ leaderboards[c][j].rating >= leaderboards[c][k].rating
             /\ leaderboards[c][j].rating = leaderboards[c][k].rating
                   => Pos(ratedList, leaderboards[c][j])
                        < Pos(ratedList, leaderboards[c][k])

\* A campus list holds two users of equal rating behind a user of higher
\* rating that the fetched list has after them.
C14_Witness ==
    \E c \in DOMAIN leaderboards :
       /\ Len(leaderboards[c]) = 3
       /\ leaderboards[c][2].rating = leaderboards[c][3].rating
       /\ leaderboards[c][1].rating > leaderboards[c][2].rating
       /\ Pos(ratedList, leaderboards[c][1]) = 3

\* The users leaderboards lists.
Listed(board) ==
    UNION {{board[c][j] : j \in DOMAIN board[c]} : c \in DOMAIN board}

\* C15 as stated: at every moment each listed user was last seen within
\* the 180 days before the current clock value.
C15_Original ==
    \A u \in Listed(leaderboards) :
       u.lastOnlineTimeSeconds >= now - UserCutoffDays * Day

\* C15 as amended: right after a rebuild each listed user was last seen at
\* or after the rebuild's clock value minus 180 days, and until the next
\* rebuild the mapping stays as that rebuild left it, whatever the clock
\* does.
C15_ActiveAtRebuild ==
    [][ /\ last'.op = "Watcher" /\ watcher.pc = "rebuilding" =>
              \A u \in Listed(leaderboards') :
                 u.lastOnlineTimeSeconds >= now' - UserCutoffDays * Day
        /\ ~(last'.op = "Watcher" /\ watcher.pc = "rebuilding") =>
              leaderboards' = leaderboards ]_vars

\* The clock has moved on since the rebuild, and a listed user was last
\* seen 181 days ago.
C15_Witness ==
    /\ last.op = "Quiet"
    /\ \E u \in Listed(leaderboards) :
          u.lastOnlineTimeSeconds = now - (UserCutoffDays + 1) * Day

\* This step completes a rebuild of the leaderboards.
Rebuilds == watcher.pc = "rebuilding" /\ last'.op = "Watcher"

\* C16: a rebuild lists a fetched user in some campus list exactly when
\* the user was last seen at or after the rebuild's clock value minus 180
\* days and its organization is one of a campus; an older user is in no
\* list whatever its organization.
C16_CutoffFilter ==
    [][ Rebuilds =>
          \A k \in DOMAIN ratedList :
             ratedList[k] \in Listed(leaderboards')
                <=> /\ ratedList[k].lastOnlineTimeSeconds
                          >= now - UserCutoffDays * Day
                    /\ \E j \in DOMAIN Campuses :
                          HasOrg(ratedList[k], Campuses[j]) ]_vars

\* A rebuild has left out a user of a campus organization last seen 200
\* days ago and listed one last seen exactly 180 days ago.
C16_Witness ==
    /\ last.op = "Watcher"
    /\ "leaderboards" \in last.wrote
    /\ \E k \in DOMAIN ratedList :
          /\ ratedList[k].lastOnlineTimeSeconds = now - 200 * Day
          /\ HomeCampus(ratedList[k]) # None
          /\ ratedList[k] \notin Listed(leaderboards)
    /\ \E u \in Listed(leaderboards) :
          u.lastOnlineTimeSeconds = now - UserCutoffDays * Day

\* How often user u occurs in the campus lists of a mapping.
Listings(board, u) ==
    Cardinality({<<c, j>> \in (DOMAIN board) \X (1..Len(ratedList)) :
                    j \in DOMAIN board[c] /\ board[c][j] = u})

\* C17: a user is in at most one campus list, and that list is the one of
\* the first campus, in configured order, with an organization name equal
\* to the user's up to case; a user without organization, or with one no
\* campus has, is in no list.
C17_FirstMatchWins ==
    \A k \in DOMAIN ratedList :
       /\ Listings(leaderboards, ratedList[k]) <= 1
       /\ \A c \in DOMAIN leaderboards :
             (\E j \in DOMAIN leaderboards[c] : leaderboards[c][j] = ratedList[k])
                => c = HomeCampus(ratedList[k])

\* A rebuild has put a user whose organization both campuses have, in
\* another case than the first campus writes it, into the first campus's
\* list only, and left out a user without organization and one whose
\* organization no campus has.
C17_Witness ==
    /\ last.op = "Watcher"
    /\ DOMAIN leaderboards = {Campuses[1]}
    /\ \E u \in Listed(leaderboards) :
          /\ u.organization \in OrgsOf(Campuses[2])
          /\ u.organization \notin OrgsOf(Campuses[1])
    /\ \E k \in DOMAIN ratedList : ratedList[k].organization = None
    /\ \E k \in DOMAIN ratedList :
          /\ ratedList[k].organization # None
          /\ HomeCampus(ratedList[k]) = None

\* C18 as stated: a rebuild of the same fetched list gives the mapping the
\* rebuild before it gave, whenever the two run.
C18_Original ==
    [][ (Rebuilds /\ leaderboards # EmptyBoards)
           => leaderboards' = leaderboards ]_vars

\* C18 as amended: what a rebuild leaves is fixed by the fetched list, the
\* campus table and the clock value the rebuild reads, whatever the buckets
\* held before; a rebuild at the clock value of the rebuild before it
\* leaves the same mapping.
C18_DeterminedByListAndClock ==
    [][ Rebuilds =>
          /\ IsBoardOf(leaderboards', ratedList, now)
          /\ IsBoardOf(leaderboards, ratedList, now)
                => leaderboards' = leaderboards ]_vars

\* A second rebuild at the clock value of the first has left the mapping,
\* which lists a user last seen exactly 180 days ago, as it was.
C18_Witness ==
    /\ last.op = "Watcher"
    /\ last.wrote = {"finishedPending"}
    /\ Len(last.arg) = 1
    /\ finishedPending = <<>>
    /\ now = T0 + Day
    /\ \E u \in Listed(leaderboards) :
          u.lastOnlineTimeSeconds = now - UserCutoffDays * Day

\* C19: a step that reads or writes a bucket is taken by a task inside an
\* `async with self._lock` block, and a task that waits for an HTTP answer
\* is inside none.
C19_LockDiscipline ==
    /\ last.op # "Unlocked"
    /\ lock = "poller" => poller.pc # "fetching"
    /\ lock = "refresher" => refresher.pc # "fetching"
    /\ lock = "watcher" => watcher.pc \notin {"polling", "rebuilding"}
    /\ lock = "reader" => reader.pc # "responding"

\* The Watcher is inside its block, about to assign the leaderboards, while
\* the Poller, the Refresher and a command wait for their answers.
C19_Witness ==
    /\ lock = "watcher"
    /\ watcher.pc = "assigning"
    /\ poller.pc = "fetching"
    /\ refresher.pc = "fetching"
    /\ refresher.snapshot # <<>>
    /\ reader.pc = "responding"
    /\ last.op = "Quiet"

\* C21: no step of a command, whichever command and campus argument and
\* whatever the buckets hold, changes upcoming, ongoing, finishedPending or
\* leaderboards; the copy a command answers from is the bucket as it is
\* while the command is inside its `async with self._lock` block, and the
\* answer has pages exactly when that copy has something to show.
C21_CommandsReadOnly ==
    [][ reader' # reader =>
          /\ UNCHANGED buckets
          /\ reader'.pc = "responding" =>
                /\ lock = "reader"
                /\ last'.op = "Locked"
                /\ reader'.copy = IF reader.cmd = "leaderboard"
                                  THEN leaderboards ELSE upcoming
          /\ reader.pc = "responding" =>
                /\ lock' = lock
                /\ (last'.arg[1] = "pages") <=>
                      IF reader.cmd = "upcoming_contests"
                      THEN reader.copy # <<>>
                      ELSE /\ reader.copy # EmptyBoards
                           /\ reader.campus # None
                                 => reader.campus \in DOMAIN reader.copy ]_vars

\* A `leaderboard` command for the first campus is about to answer from a
\* copy of rebuilt leaderboards, with a contest in upcoming.
C21_Witness ==
    /\ reader.pc = "responding"
    /\ reader.cmd = "leaderboard"
    /\ reader.campus = Campuses[1]
    /\ reader.copy # EmptyBoards
    /\ reader.copy = leaderboards
    /\ upcoming # <<>>

\* No fetch of the step taken last raised.
FetchesSucceed ==
    last.op \notin {"PollerFailed", "RefresherFailed", "WatcherFailed"}

\* Contest i is in none of upcoming, ongoing and finishedPending.
Untracked(i) ==
    ~HasId(upcoming, i) /\ ~HasId(ongoing, i) /\ ~HasId(finishedPending, i)

C23_ForwardOnly ==
    [][ \A i \in ContestIds :
          /\ PhaseRank(apiPhase'[i]) >= PhaseRank(apiPhase[i])
          /\ HasId(finishedPending, i) =>
                /\ HasId(ongoing', i) => HasId(ongoing, i)
                /\ HasId(upcoming', i) => HasId(upcoming, i)
          /\ HasId(ongoing, i) =>
                (HasId(upcoming', i) => HasId(upcoming, i)) ]_vars

\* C24: a step that takes out of upcoming a contest whose start time has
\* come leaves the id of that contest in ongoing; a started contest is
\* never in neither of the two, also not after a Poller tick that runs
\* before the Mover while the API still reports phase BEFORE.
C24_StartedNeverDropped ==
    [][ \A k \in DOMAIN upcoming :
          (/\ upcoming[k].startTimeSeconds <= now
           /\ ~HasId(upcoming', upcoming[k].id))
             => HasId(ongoing', upcoming[k].id) ]_vars

\* C25: while the Refresher waits for its answers, ongoing is its snapshot
\* followed by what the Mover and the Poller have appended since, and the
\* write-back leaves every appended entry in ongoing as it is; while the
\* Watcher waits, finishedPending is its snapshot followed by what the
\* Refresher has appended since, and the step that ends the Watcher's tick
\* leaves every appended entry in finishedPending as it is.
C25_NoLostUpdate ==
    [][ /\ (refresher.pc = "fetching" /\ refresher'.pc = "idle") =>
              LET n == Len(refresher.snapshot)
                  kept == SelectSeq(ongoing', LAMBDA c :
                             ~HasId(refresher.snapshot, c.id))
              IN  /\ Len(ongoing) >= n
                  /\ SubSeq(ongoing, 1, n) = refresher.snapshot
                  /\ kept = SubSeq(ongoing, n + 1, Len(ongoing))
        /\ (watcher.pc # "idle" /\ watcher'.pc = "idle") =>
              LET n == Len(watcher.pending)
              IN  /\ Len(finishedPending) >= n
                  /\ SubSeq(finishedPending, 1, n) = watcher.pending
                  /\ Len(finishedPending') >= Len(finishedPending) - n
                  /\ SubSeq(finishedPending',
                            Len(finishedPending') - (Len(finishedPending) - n) + 1,
                            Len(finishedPending'))
                        = SubSeq(finishedPending, n + 1, Len(finishedPending))
      ]_vars

\* A Refresher tick whose snapshot held one contest has moved that contest
\* to finishedPending, and a contest appended to ongoing since the snapshot
\* is in ongoing.
C25_Witness ==
    /\ last.op = "Refresher"
    /\ Len(last.arg) = 1
    /\ last.arg[1].phase = FINISHED
    /\ HasId(finishedPending, last.arg[1].id)
    /\ Len(ongoing) = 1
    /\ ongoing[1].id # last.arg[1].id

\* C26: a step takes a contest out of finishedPending only by completing a
\* rebuild of the leaderboards, and what it takes out are published
\* contests of that Watcher tick; when the fetch of the rated users raises,
\* finishedPending and leaderboards stay as they are, the published
\* contests are still pending, and the next Watcher tick takes its
\* snapshot of finishedPending with them in it.
C26_RemovalNeedsRebuild ==
    [][ /\ (\E k \in DOMAIN finishedPending :
               \A j \in DOMAIN finishedPending' :
                  finishedPending'[j] # finishedPending[k])
              => /\ Rebuilds
                 /\ IsBoardOf(leaderboards', ratedList, now)
                 /\ \A k \in DOMAIN finishedPending :
                       (\A j \in DOMAIN finishedPending' :
                           finishedPending'[j] # finishedPending[k])
                          => /\ finishedPending[k].id \in ratings
                             /\ \E j \in DOMAIN watcher.toRemove :
                                   watcher.toRemove[j] = finishedPending[k]
        /\ (watcher.pc = "rebuilding" /\ last'.op = "WatcherFailed")
              => /\ UNCHANGED <<finishedPending, leaderboards>>
                 /\ \A k \in DOMAIN watcher.toRemove :
                       \E j \in DOMAIN finishedPending' :
                          finishedPending'[j] = watcher.toRemove[k]
        /\ (watcher.pc = "idle" /\ watcher'.pc = "polling")
              => watcher'.pending = finishedPending ]_vars

\* The rebuild of a Watcher tick has failed: the published contest is
\* still pending and the leaderboards of an earlier rebuild are in place.
C26_Witness ==
    /\ last.op = "WatcherFailed"
    /\ last.arg # <<>>
    /\ \A k \in DOMAIN last.arg :
          /\ last.arg[k].id \in ratings
          /\ \E j \in DOMAIN finishedPending : finishedPending[j] = last.arg[k]
    /\ leaderboards # EmptyBoards
    /\ watcher.pc = "idle"

\* C27: contest.list answers with pairwise distinct ids and a per-contest
\* answer carries the id asked for; then in every reachable state no id is
\* twice in upcoming, twice in ongoing or twice in finishedPending.
C27_NoDuplicateIds ==
    /\ poller.pc = "fetching" =>
          \A i \in ContestIds : Count(poller.resp.body, i) <= 1
    /\ \A i \in ContestIds :
          /\ Count(upcoming, i) <= 1
          /\ Count(ongoing, i) <= 1
          /\ Count(finishedPending, i) <= 1

\* A Poller tick has fetched, as under way, a contest whose id was in
\* ongoing, and has left ongoing as it was, with both contests in it.
C27_Witness ==
    /\ last.op = "Poller"
    /\ "ongoing" \notin last.wrote
    /\ Len(ongoing) = 2
    /\ \E k \in DOMAIN last.arg :
          /\ CountsAsOngoing(last.arg[k], now)
          /\ HasId(ongoing, last.arg[k].id)

\* C28: when a fetch of the Refresher's gather raises, the tick ends and
\* no bucket changes: no answer of that tick is applied.  Otherwise the
\* tick enters its block with one answer per contest of its snapshot, no
\* bucket changes while it is inside, and the step that leaves the block
\* has applied every answer that is not None: a FINISHED contest is out of
\* ongoing and in finishedPending, any other answer stands in ongoing in
\* place of the entry with its id.
C28_WriteBackAllOrNothing ==
    [][ /\ (refresher.pc = "fetching" /\ refresher'.pc = "idle")
              => UNCHANGED buckets
        /\ (refresher.pc = "fetching" /\ refresher'.pc = "applying")
              => /\ UNCHANGED buckets
                 /\ lock' = "refresher"
                 /\ Len(refresher'.snapshot) = Len(refresher.snapshot)
        /\ (refresher.pc = "applying" /\ refresher'.pc = "applying")
              => UNCHANGED buckets /\ lock' = "refresher"
        /\ (refresher.pc = "applying" /\ refresher'.pc # "applying")
              => /\ lock = "refresher"
                 /\ refresher'.pc = "idle"
                 /\ UNCHANGED <<upcoming, leaderboards>>
                 /\ \A k \in DOMAIN refresher.snapshot :
                       LET updated == refresher.snapshot[k]
                       IN  updated # NoContest =>
                              IF updated.phase = FINISHED
                              THEN /\ ~HasId(ongoing', updated.id)
                                   /\ HasId(finishedPending', updated.id)
                              ELSE HasId(ongoing, updated.id) =>
                                      \E j \in DOMAIN ongoing' :
                                         ongoing'[j] = updated ]_vars

\* A Refresher tick has applied two answers in one step inside its block:
\* contest 2, FINISHED, is in finishedPending, and contest 1 stands in
\* ongoing in the phase of its answer.
C28_Witness ==
    /\ last.op = "Locked"
    /\ Len(last.arg) = 2
    /\ last.arg[1].phase = FINISHED
    /\ last.arg[2].phase = CODING
    /\ HasId(finishedPending, last.arg[1].id)
    /\ ongoing = <<last.arg[2]>>
    /\ refresher.pc = "idle"

\* The tasks that take the lock.
Tasks == {"poller", "mover", "refresher", "watcher", "reader"}

\* Task t is inside an `async with self._lock` block.
Inside(t) ==
    CASE t = "poller" -> poller.pc = "locked"
      [] t = "mover" -> mover.pc = "locked"
      [] t = "refresher" -> refresher.pc \in {"locked", "applying"}
      [] t = "watcher" -> watcher.pc \in {"locked", "assigning", "removing"}
      [] t = "reader" -> reader.pc = "locked"

RefresherSucceeds ==
    /\ last.op # "RefresherFailed"
    /\ last.op = "Refresher" =>
          \A k \in DOMAIN last.arg : last.arg[k] # NoContest

\* C30 as stated: with the Refresher scheduled fairly and its fetches
\* succeeding from some point on, a contest that is in ongoing and that the
\* API reports FINISHED from some point on is eventually in finishedPending,
\* however long after its start the API reports it FINISHED.
C30_Original ==
    \A i \in ContestIds :
       (<>[](apiPhase[i] = FINISHED) /\ <>[]RefresherSucceeds)
          => [](HasId(ongoing, i) => <>HasId(finishedPending, i))

\* Step 1 of a Refresher tick has taken contest i out of ongoing as started
\* more than 7 days ago.
EvictedStale(i) ==
    /\ last.op = "RefresherEvict"
    /\ "ongoing" \in last.wrote
    /\ ~HasId(ongoing, i)
    /\ now - apiStart[i] > MaxAge

\* C30 as amended: under the same scheduling, such a contest is eventually
\* in finishedPending or is evicted by step 1 of a Refresher tick that
\* finds it started more than 7 days ago; a contest leaves ongoing in no
\* other way than these two.
C30_FinishedOrEvicted ==
    /\ \A i \in ContestIds :
          (<>[](apiPhase[i] = FINISHED) /\ <>[]RefresherSucceeds)
             => [](HasId(ongoing, i)
                     => <>(HasId(finishedPending, i) \/ EvictedStale(i)))
    /\ [][ \A i \in ContestIds :
             (HasId(ongoing, i) /\ ~HasId(ongoing', i)) =>
                \/ /\ last'.op = "Refresher"
                   /\ HasId(finishedPending', i)
                   /\ apiPhase[i] = FINISHED
                \/ /\ last'.op = "RefresherEvict"
                   /\ \A k \in DOMAIN ongoing :
                         ongoing[k].id = i =>
                            now - ongoing[k].startTimeSeconds > MaxAge ]_vars

\* Step 1 of a Refresher tick has evicted contest 2, in ongoing since it was
\* six days old and now eight, which the API reports FINISHED and which is
\* not in finishedPending.
C30_Witness ==
    /\ EvictedStale(2)
    /\ apiPhase[2] = FINISHED
    /\ ~HasId(finishedPending, 2)
    /\ now - apiStart[2] = (MaxAgeDays + 1) * Day

====
